---- MODULE Spec2Model ----
(***************************************************************************)
(* provy/core/roles.py: the base Role, its nesting protocols               *)
(* (provision_role, using), the cleanup registry of the shared context,    *)
(* and the remote convergence operations (update_file, remote_symlink).    *)
(*                                                                         *)
(* One host run is one sequential thread of control.  The role part is a   *)
(* call stack of running provision() methods and open using-scopes; the    *)
(* convergence operations are atomic calls against a remote file system,   *)
(* each with the remote call (if any) that fails as an input.              *)
(***************************************************************************)
EXTENDS Integers, Sequences, FiniteSets, TLC

\* ------------------------------------------------------------------ bounds
\* Role instances constructed in one host run.
MaxInst == 4

\* ------------------------------------------------------------- role classes
\* Runtime classes of roles; SubUserRole is a subclass of UserRole, a class
\* of its own for __class__ == __class__.
Classes == {"NginxRole", "UserRole", "SubUserRole"}

VARIABLES
    cleanup,      \* context['cleanup']: sequence of role instances
    stack,        \* running provision() methods and open using-bodies, innermost last
    raising,      \* an exception is propagating out of the innermost frame
    nextId,       \* identity of the next constructed instance
    provisioned,  \* ids of the instances whose provision() has completed
    scheduled,    \* instances on which schedule_cleanup() has been called
    cleaned,      \* ids of the instances on which cleanup() has been called
    ev,           \* the last step of the role protocols
    context,      \* the other keys of the shared context (host, template variables)
    fs,           \* the file system of the target host: path -> node
    lfs,          \* the local temporary directory: name -> content
    res,          \* the last convergence call: arguments, host before, outcome
    registered    \* identifiers a register_template_loader call has returned for

roleVars == <<cleanup, stack, raising, nextId, provisioned, scheduled, cleaned, ev>>

convVars == <<context, fs, lfs, res, registered>>

vars == <<roleVars, convVars>>

\* Role.__init__(prov, context): an instance is its identity and its class;
\* prov and context are the same for every instance of the run.
Role(id, cls) == [id |-> id, cls |-> cls]

\* Number of entries of class c in a registry.
CountClass(cl, c) == Cardinality({k \in 1..Len(cl) : cl[k].cls = c})

\* Role.schedule_cleanup: the registry after self.schedule_cleanup().
schedule_cleanup_by_id(cl, self) ==
    IF \E k \in 1..Len(cl) : cl[k] = self THEN cl ELSE Append(cl, self)

schedule_cleanup_moves_to_end(cl, self) ==
    Append(SelectSeq(cl, LAMBDA role : role.cls # self.cls), self)

schedule_cleanup_replaces(cl, self) ==
    IF \E k \in 1..Len(cl) : cl[k].cls = self.cls
    THEN [k \in 1..Len(cl) |-> IF cl[k].cls = self.cls THEN self ELSE cl[k]]
    ELSE Append(cl, self)

schedule_cleanup_at_front(cl, self) ==
    IF \E k \in 1..Len(cl) : cl[k].cls = self.cls THEN cl ELSE << self >> \o cl

schedule_cleanup(cl, self) ==
    LET has_role == \E k \in 1..Len(cl) : cl[k].cls = self.cls
    IN  IF ~has_role THEN Append(cl, self) ELSE cl

Top == stack[Len(stack)]

Running == ~raising /\ Len(stack) >= 1

\* Open using-scopes (entered or being entered): each constructs one more
\* instance when it is left.
OpenScopes == Cardinality({k \in 1..Len(stack) : stack[k].via = "using"})

\* Room for n more instances besides those the open scopes still construct.
Room(n) == nextId + n + OpenScopes <= MaxInst + 1

Frame(kind, via, inst) == [kind |-> kind, via |-> via, inst |-> inst]

Event(op, inst, before) == [op |-> op, inst |-> inst, before |-> before]

NoInst == Role(0, "none")

\* A run starts inside the provision() of the role the driver constructed,
\* with an empty registry.
RolesStart ==
    /\ cleanup = << >>
    /\ \E c \in Classes : stack = << Frame("provision", "driver", Role(1, c)) >>
    /\ raising = FALSE
    /\ nextId = 2
    /\ provisioned = {}
    /\ scheduled = {}
    /\ cleaned = {}
    /\ ev = Event("init", NoInst, << >>)

\* ------------------------------------------------- remote host and files
\* A path is the sequence of its components: os.path.join, dirname, split.
join(dir, base) == Append(dir, base)
dirname(path) == SubSeq(path, 1, Len(path) - 1)
basename(path) == path[Len(path)]

None == "None"
Absent == "absent"
NoPath == << >>
NoFile == <<"no file">>

TO_FILE == <<"etc", "app.conf">>
REMOTE_TMP == <<"tmp">>
LOCAL_TMP == <<"var", "tmp">>
TmpNames == {"tmpA1"}
LocalPaths == {join(LOCAL_TMP, n) : n \in TmpNames}
FilePaths == {TO_FILE} \cup {join(REMOTE_TMP, n) : n \in TmpNames}

\* Template variables and the texts the template renders them to.
Keys == {"name"}
Values == {"web", "api", "caf_u00e9"}
OptValues == {"api", "caf_u00e9"}
Templates == {"app.conf.tpl", "missing.tpl"}
Found == {"app.conf.tpl"}
Text(value) == <<"name=", value>>
Empty == << >>
NonAscii == {Text("caf_u00e9")}
Contents == {Text(v) : v \in Values}

\* The jinja2 loaders of context['loader'].loaders and the templates each
\* finds: the loader of the run's files directory, and the package loaders
\* roles register.  A package that cannot be imported has no loader:
\* PackageLoader(package_name) raises.
FileSystemLoader(searchpath) == [kind |-> "FileSystemLoader", of |-> searchpath]
PackageLoader(package_name) == [kind |-> "PackageLoader", of |-> package_name]
Packages == {"provy.more", "my.app", "my.site", "my.db", "not.importable"}
Importable == {"provy.more", "my.app", "my.site", "my.db"}
Provides(loader) ==
    IF loader = FileSystemLoader("files") THEN Found
    ELSE IF loader = PackageLoader("my.app") THEN {"missing.tpl"}
    ELSE {}

\* The context of a host run as the driver hands it to the first role
\* (without its 'cleanup' key, the variable cleanup).
StartContext ==
    [host |-> "web1", name |-> "web",
     loader |-> << FileSystemLoader("files") >>, registered_loaders |-> << >>]

Node(kind, content, target, owner) ==
    [kind |-> kind, content |-> content, target |-> target, owner |-> owner]
NoNode == Node(Absent, Empty, NoPath, None)
FileNode(content, owner) == Node("file", content, NoPath, owner)
LinkNode(target) == Node("link", Empty, target, "root")
DirNode == Node("dir", Empty, NoPath, "root")

At(f, path) == IF path \in DOMAIN f THEN f[path] ELSE NoNode

\* The file system with `node` at `path`.
Write(f, path, node) ==
    [p \in DOMAIN f \cup {path} |-> IF p = path THEN node ELSE f[p]]

\* The node a path resolves to, following symbolic links (one level is
\* all the modelled hosts hold; a link to a link does not resolve).
Resolve(f, path) ==
    IF At(f, path).kind # "link" THEN path
    ELSE IF At(f, At(f, path).target).kind = "link" THEN NoPath
    ELSE At(f, path).target

\* hashlib.md5(...).hexdigest(), collision-free; ws: the output of the remote
\* command carries whitespace around the digest.
Md5(content, ws) == [hex |-> <<"md5", content>>, ws |-> ws]
strip_nothing(digest) == digest

strip(digest) == [digest EXCEPT !.ws = FALSE]

\* ------------------------------------------------------- the call's world
\* The state a call runs in: remote and local files, the remote actions
\* issued so far, the number of fallible steps taken, the step that fails,
\* whether an exception is propagating, the value of the last expression;
\* ctx: the context dictionary every role of the run shares; failed: the
\* place in the log of the remote action that raised (0: none did).
World(f, l, fail) ==
    [fs |-> f, lfs |-> l, ctx |-> context, log |-> << >>, n |-> 0, fail |-> fail,
     failed |-> 0, exc |-> FALSE, out |-> None, ret |-> None]

\* Sequencing: the rest of a call, F, runs in the world x its first part left.
Then(x, F(_)) == CHOOSE r \in {F(v) : v \in {x}} : TRUE

Cmd(c, a, b, owner, sudo) == [c |-> c, a |-> a, b |-> b, owner |-> owner, sudo |-> sudo]

\* What a shell command leaves of the host's files.
ShellEffect(f, cmd) ==
    CASE cmd.c = "cp" ->
            \* cp temp_path to_file: the content; a new file is root's
            Write(f, Resolve(f, cmd.b),
                  FileNode(At(f, Resolve(f, cmd.a)).content,
                           IF At(f, Resolve(f, cmd.b)).kind = "file"
                           THEN At(f, Resolve(f, cmd.b)).owner ELSE "root"))
      [] cmd.c = "chown" ->
            Write(f, Resolve(f, cmd.a),
                  [At(f, Resolve(f, cmd.a)) EXCEPT !.owner = cmd.owner])
      [] cmd.c = "mkdir -p" ->
            \* mkdir -p directory: nothing to do for a directory that exists
            IF At(f, Resolve(f, cmd.a)).kind = "dir" THEN f
            ELSE Write(f, Resolve(f, cmd.a),
                       Node("dir", Empty, NoPath, IF cmd.sudo THEN "root" ELSE "login"))
      [] cmd.c = "chown -R" ->
            \* cd path && chown -R owner . : the directory and all below it
            [p \in DOMAIN f |->
                IF /\ Len(p) >= Len(Resolve(f, cmd.a))
                   /\ SubSeq(p, 1, Len(Resolve(f, cmd.a))) = Resolve(f, cmd.a)
                   /\ f[p].kind # Absent
                THEN [f[p] EXCEPT !.owner = cmd.owner] ELSE f[p]]
      [] cmd.c = "rm -f" -> Write(f, cmd.a, NoNode)
      [] cmd.c = "ln -sf" ->
            \* ln -sf from to: a destination that is a directory, or a link
            \* to one, is entered and the link made inside it; any other
            \* destination is replaced by the link
            IF At(f, Resolve(f, cmd.b)).kind = "dir"
            THEN Write(f, join(Resolve(f, cmd.b), basename(cmd.a)), LinkNode(cmd.a))
            ELSE Write(f, cmd.b, LinkNode(cmd.a))
      [] OTHER -> f

\* The commands that end with an error on this host, whatever else happens:
\* mkdir -p of a path that is a file.
ShellFails(f, cmd) ==
    cmd.c = "mkdir -p" /\ At(f, Resolve(f, cmd.a)).kind = "file"

\* What a shell command prints.
ShellOutput(f, cmd, ws) ==
    CASE cmd.c = "test -f" ->
            IF At(f, Resolve(f, cmd.a)).kind = "file" THEN "0" ELSE "1"
      [] cmd.c = "test -d" ->
            IF At(f, Resolve(f, cmd.a)).kind = "dir" THEN "0" ELSE "1"
      [] cmd.c = "md5" -> Md5(At(f, Resolve(f, cmd.a)).content, ws)
      [] cmd.c = "gettempdir" -> REMOTE_TMP
      [] cmd.c = "ls -la" ->
            \* the line of the path itself: "... path -> target" for a link
            [arrow |-> At(f, cmd.a).kind = "link", target |-> At(f, cmd.a).target]
      [] OTHER -> ""

\* Role.execute, lines 153-160 (fabric run / sudo): the command runs on the
\* host and its output is returned, or the call raises.
execute_retrying(w, cmd, ws) ==
    IF w.exc THEN w
    ELSE IF w.n + 1 = w.fail \/ ShellFails(w.fs, cmd)
    THEN [w EXCEPT !.n = @ + 1, !.log = Append(Append(@, cmd), cmd),
                   !.failed = Len(w.log) + 1,
                   !.fs = ShellEffect(w.fs, cmd),
                   !.out = ShellOutput(w.fs, cmd, ws)]
    ELSE [w EXCEPT !.n = @ + 1, !.log = Append(@, cmd),
                   !.fs = ShellEffect(w.fs, cmd),
                   !.out = ShellOutput(w.fs, cmd, ws)]

execute(w, cmd, ws) ==
    IF w.exc THEN w
    ELSE IF w.n + 1 = w.fail \/ ShellFails(w.fs, cmd)
    THEN [w EXCEPT !.n = @ + 1, !.exc = TRUE, !.log = Append(@, cmd),
                   !.failed = Len(w.log) + 1]
    ELSE [w EXCEPT !.n = @ + 1, !.log = Append(@, cmd),
                   !.fs = ShellEffect(w.fs, cmd),
                   !.out = ShellOutput(w.fs, cmd, ws)]

\* fabric put(local, remote): upload as the session user, or raise.
put(w, from_file, to_file) ==
    IF w.exc THEN w
    ELSE IF w.n + 1 = w.fail
    THEN [w EXCEPT !.n = @ + 1, !.exc = TRUE,
                   !.log = Append(@, Cmd("put", from_file, to_file, None, FALSE)),
                   !.failed = Len(w.log) + 1]
    ELSE [w EXCEPT !.n = @ + 1,
                   !.log = Append(@, Cmd("put", from_file, to_file, None, FALSE)),
                   !.fs = Write(w.fs, Resolve(w.fs, to_file),
                                FileNode(w.lfs[from_file],
                                         IF At(w.fs, Resolve(w.fs, to_file)).kind = "file"
                                         THEN At(w.fs, Resolve(w.fs, to_file)).owner
                                         ELSE "login"))]

\* Role.remote_exists, line 211.
remote_exists(w, file_path) ==
    Then(execute(w, Cmd("test -f", file_path, NoPath, None, FALSE), FALSE),
         LAMBDA r : IF r.exc THEN r ELSE [r EXCEPT !.out = (r.out = "0")])

\* Role.remote_exists_dir, line 224.
remote_exists_dir(w, file_path) ==
    Then(execute(w, Cmd("test -d", file_path, NoPath, None, FALSE), FALSE),
         LAMBDA r : IF r.exc THEN r ELSE [r EXCEPT !.out = (r.out = "0")])

\* Role.remote_temp_dir, line 248.
remote_temp_dir(w) == execute(w, Cmd("gettempdir", NoPath, NoPath, None, FALSE), FALSE)

\* Role.change_file_owner, line 274.
change_file_owner(w, path, owner) == execute(w, Cmd("chown", path, NoPath, owner, TRUE), FALSE)

\* Role.change_dir_owner, line 271.
change_dir_owner(w, path, owner) ==
    execute(w, Cmd("chown -R", path, NoPath, owner, TRUE), FALSE)

\* Role.md5_local, line 277.
md5_local(w, file_path) == Md5(w.lfs[file_path], FALSE)

\* Role.md5_remote, lines 280-281.
md5_remote(w, file_path, ws) == execute(w, Cmd("md5", file_path, NoPath, None, FALSE), ws)

\* ------------------------------------------------------------ file push
\* Role.extend_context, lines 315-321: the context, then the options over it.
extend_context(ctx, options) ==
    [key \in DOMAIN ctx \cup DOMAIN options |->
        IF key \in DOMAIN options THEN options[key] ELSE ctx[key]]

\* Role.render, lines 374-383: get_template raises for a template no loader
\* finds; the text is the template rendered with the extended context.
get_template(loader, template_path) ==
    \E k \in 1..Len(loader) : template_path \in Provides(loader[k])

render_missing_as_empty(w, template_file, options) ==
    IF w.exc THEN w
    ELSE IF ~get_template(w.ctx.loader, template_file) THEN [w EXCEPT !.out = Empty]
    ELSE [w EXCEPT !.out = Text(extend_context(w.ctx, options)["name"])]

render_into_context(w, template_file, options) ==
    IF w.exc THEN w
    ELSE IF ~get_template(w.ctx.loader, template_file) THEN [w EXCEPT !.exc = TRUE]
    ELSE [w EXCEPT !.out = Text(extend_context(w.ctx, options)["name"]),
                   !.ctx = extend_context(w.ctx, options)]

render(w, template_file, options) ==
    IF w.exc THEN w
    ELSE IF ~get_template(w.ctx.loader, template_file) THEN [w EXCEPT !.exc = TRUE]
    ELSE [w EXCEPT !.out = Text(extend_context(w.ctx, options)["name"])]

\* Role.write_to_temp_file, lines 363-369: NamedTemporaryFile(delete=False)
\* creates the file `name`; f.write(text) raises for a text the default
\* codec cannot encode (or when the write fails) and leaves the file, which
\* the with-statement closes and does not delete.
write_to_temp_file(w, text, name) ==
    IF w.exc THEN w
    ELSE IF text \in NonAscii \/ w.n + 1 = w.fail
    THEN [w EXCEPT !.n = @ + 1, !.exc = TRUE, !.lfs[join(LOCAL_TMP, name)] = Empty]
    ELSE [w EXCEPT !.n = @ + 1, !.lfs[join(LOCAL_TMP, name)] = text,
                   !.out = join(LOCAL_TMP, name)]

\* Role.put_file, lines 323-330.
put_file_without_copy(w, from_file, to_file, sudo) ==
    IF sudo
    THEN Then(remote_temp_dir(w), LAMBDA d :
              IF d.exc THEN d
              ELSE put(d, from_file, join(d.out, basename(from_file))))
    ELSE put(w, from_file, to_file)

put_file_direct_upload(w, from_file, to_file, sudo) == put(w, from_file, to_file)

put_file(w, from_file, to_file, sudo) ==
    IF sudo
    THEN Then(remote_temp_dir(w), LAMBDA d :
              IF d.exc THEN d
              ELSE Then(join(d.out, basename(from_file)), LAMBDA temp_path :
                   Then(put(d, from_file, temp_path), LAMBDA u :
                        execute(u, Cmd("cp", temp_path, to_file, None, TRUE), FALSE))))
    ELSE put(w, from_file, to_file)

\* The return statement: the value, unless an exception is propagating.
Return(w, value) == IF w.exc THEN w ELSE [w EXCEPT !.ret = value]

\* os.remove(path) of the finally clause, lines 358-359.
os_remove(w, path) == [w EXCEPT !.lfs[path] = NoFile]

\* Role.update_file, lines 332-361.  name: the file NamedTemporaryFile
\* creates; ws: whether the remote digest comes back with whitespace.
\* Role.update_file, lines 339-356 and 361: the try block after the
\* temporary file was written.
update_file_try(t, local_temp_path, to_file, owner, sudo, ws) ==
    Then(remote_exists(t, to_file), LAMBDA e :
        IF e.exc THEN e
        ELSE IF ~e.out
        THEN \* lines 340-345
             Then(put_file(e, local_temp_path, to_file, sudo), LAMBDA p :
             Then(IF owner # None THEN change_file_owner(p, to_file, owner) ELSE p,
                  LAMBDA o : Return(o, "True")))
        ELSE \* lines 347-356
             Then(md5_remote(e, to_file, ws), LAMBDA m :
                 IF m.exc THEN m
                 ELSE IF strip(md5_local(e, local_temp_path)) # strip(m.out)
                 THEN Then(put_file(m, local_temp_path, to_file, sudo), LAMBDA p :
                      Then(IF owner # None THEN change_file_owner(p, to_file, owner)
                           ELSE p,
                           LAMBDA o : Return(o, "True")))
                 ELSE Return(m, "False")))

\* Role.update_file, lines 332-361.  name: the file NamedTemporaryFile
\* creates; ws: whether the remote digest comes back with whitespace.
update_file(w, from_file, to_file, owner, options, sudo, name, ws) ==
    Then(render(w, from_file, options), LAMBDA template :
    Then(write_to_temp_file(template, template.out, name), LAMBDA t :
    Then(IF t.exc THEN NoPath ELSE t.out, LAMBDA local_temp_path :
    Then(update_file_try(t, local_temp_path, to_file, owner, sudo, ws), LAMBDA body :
         \* finally, lines 357-359
         IF local_temp_path # NoPath /\ body.lfs[local_temp_path] # NoFile
         THEN os_remove(body, local_temp_path)
         ELSE body))))

\* The record of a call: its arguments, the host before it, what it issued,
\* how it ended (the value it returned, or "raised"), and how the call
\* before it ended when that was the same call with the same arguments.
NoCall == "no call"

Outcome(w) == IF w.exc THEN "raised" ELSE w.ret

Result(op, args, w) ==
    [op |-> op, args |-> args, pre |-> fs, log |-> w.log, failed |-> w.failed,
     ret |-> Outcome(w),
     rep |-> IF res.op = op /\ res.args = args THEN res.ret ELSE NoCall]

Options == UNION {[D -> OptValues] : D \in SUBSET Keys}

Args(from_file, to_file, owner, options, sudo) ==
    [from |-> from_file, to |-> to_file, owner |-> owner, options |-> options,
     sudo |-> sudo]

\* The name NamedTemporaryFile gives its file: one no file of the local
\* temporary directory has.
FreeName == CHOOSE n \in TmpNames : lfs[join(LOCAL_TMP, n)] = NoFile

\* One call of update_file by a role, with its outcome.  Any one of the
\* fallible steps of the call may be the one that fails (0: none does).
UpdateFile(from_file, to_file, owner, options, sudo) ==
    /\ \E n \in TmpNames : lfs[join(LOCAL_TMP, n)] = NoFile
    /\ \E ws \in BOOLEAN :
        \E fail \in 0..update_file(World(fs, lfs, 0), from_file, to_file, owner,
                                   options, sudo, FreeName, ws).n :
        \E w \in {update_file(World(fs, lfs, fail), from_file, to_file, owner,
                              options, sudo, FreeName, ws)} :
           /\ fs' = w.fs
           /\ lfs' = w.lfs
           /\ context' = w.ctx
           /\ res' = Result("update_file",
                            Args(from_file, to_file, owner, options, sudo), w)
    /\ UNCHANGED <<roleVars, registered>>

\* ------------------------------------------------------ template loaders
\* Role.register_template_loader, lines 63-65.
register_template_loader_unchecked(w, package_name) ==
    IF package_name \notin Importable THEN [w EXCEPT !.exc = TRUE]
    ELSE [w EXCEPT !.ctx.loader = Append(@, PackageLoader(package_name)),
                   !.ctx.registered_loaders = Append(@, package_name)]

register_template_loader(w, package_name) ==
    IF \A k \in 1..Len(w.ctx.registered_loaders) :
           w.ctx.registered_loaders[k] # package_name              \* line 63
    THEN IF package_name \notin Importable
         THEN [w EXCEPT !.exc = TRUE]            \* line 64: PackageLoader raises
         ELSE [w EXCEPT !.ctx.loader = Append(@, PackageLoader(package_name)),
                        !.ctx.registered_loaders = Append(@, package_name)]
    ELSE w

\* One call of register_template_loader by a role, with its outcome.
RegisterTemplateLoader(package_name) ==
    /\ \E w \in {register_template_loader(World(fs, lfs, 0), package_name)} :
           /\ context' = w.ctx
           /\ res' = Result("register_template_loader",
                            Args(package_name, NoPath, None, << >>, FALSE), w)
           /\ registered' = IF w.exc THEN registered
                            ELSE registered \cup {package_name}
    /\ UNCHANGED <<roleVars, fs, lfs>>

\* -------------------------------------------------------------- symlink
FROM_FILE == <<"opt", "app-v2">>
OTHER_FILE == <<"opt", "app-v1">>
LINK == <<"usr", "bin", "app">>

\* Role.remote_symlink, lines 295-313.
remote_symlink_unchecked(w, from_file, to_file, sudo) ==
    Then(Cmd("ln -sf", from_file, to_file, None, sudo), LAMBDA command :
    Then(remote_exists(w, to_file), LAMBDA t :
        IF t.exc THEN t
        ELSE IF t.out
        THEN Then(execute(t, Cmd("ls -la", to_file, NoPath, None, sudo), FALSE),
                  LAMBDA result :
                 IF result.exc THEN result
                 ELSE IF result.out.arrow /\ result.out.target # from_file
                 THEN Return(execute(result, command, FALSE), "True")
                 ELSE Return(result, "False"))
        ELSE Return(execute(t, command, FALSE), "True")))

remote_symlink(w, from_file, to_file, sudo) ==
    Then(remote_exists(w, from_file), LAMBDA s :
        IF s.exc THEN s
        ELSE IF ~s.out THEN [s EXCEPT !.exc = TRUE]             \* lines 296-297
        ELSE
    Then(Cmd("ln -sf", from_file, to_file, None, sudo), LAMBDA command :  \* 299
    Then(remote_exists(s, to_file), LAMBDA t :                  \* line 300
        IF t.exc THEN t
        ELSE IF t.out
        THEN Then(execute(t, Cmd("ls -la", to_file, NoPath, None, sudo), FALSE),
                  LAMBDA result :                               \* lines 301-307
                 IF result.exc THEN result
                 ELSE IF result.out.arrow /\ result.out.target # from_file
                 THEN Return(execute(result, command, FALSE), "True")
                 ELSE Return(result, "False"))                  \* line 313
        ELSE Return(execute(t, command, FALSE), "True"))))      \* lines 309-311

\* One call of remote_symlink by a role, with its outcome.
RemoteSymlink(from_file, to_file, sudo) ==
    /\ \E fail \in 0..remote_symlink(World(fs, lfs, 0), from_file, to_file, sudo).n :
        \E w \in {remote_symlink(World(fs, lfs, fail), from_file, to_file, sudo)} :
           /\ fs' = w.fs
           /\ context' = w.ctx
           /\ res' = Result("remote_symlink",
                            Args(from_file, to_file, None, << >>, sudo), w)
    /\ UNCHANGED <<roleVars, lfs, registered>>

\* ------------------------------------------- directories, removal, upload
DIR == <<"srv", "app">>
LOCAL_FILE == <<"home", "motd">>

\* Role.ensure_dir, lines 264-268.
ensure_dir_owner_on_create(w, directory, owner, sudo) ==
    Then(remote_exists_dir(w, directory), LAMBDA e :
        IF e.exc \/ e.out THEN e
        ELSE Then(execute(e, Cmd("mkdir -p", directory, NoPath, None, sudo), FALSE),
                  LAMBDA c :
                  IF owner # None THEN change_dir_owner(c, directory, owner) ELSE c))

ensure_dir(w, directory, owner, sudo) ==
    Then(remote_exists_dir(w, directory), LAMBDA e :                \* line 264
        IF e.exc THEN e
        ELSE Then(IF ~e.out
                  THEN execute(e, Cmd("mkdir -p", directory, NoPath, None, sudo), FALSE)
                  ELSE e,
                  LAMBDA c :                                        \* lines 267-268
                  IF owner # None THEN change_dir_owner(c, directory, owner) ELSE c))

\* Role.remove_file, lines 283-290.
remove_file(w, file_path, sudo) ==
    Then(remote_exists(w, file_path), LAMBDA e :
        IF e.exc THEN e
        ELSE IF e.out
        THEN Return(execute(e, Cmd("rm -f", file_path, NoPath, None, sudo), FALSE),
                    "True")
        ELSE Return(e, "False"))

\* One call of ensure_dir by a role, with its outcome.
EnsureDir(directory, owner, sudo) ==
    /\ \E fail \in 0..ensure_dir(World(fs, lfs, 0), directory, owner, sudo).n :
        \E w \in {ensure_dir(World(fs, lfs, fail), directory, owner, sudo)} :
           /\ fs' = w.fs
           /\ context' = w.ctx
           /\ res' = Result("ensure_dir", Args(None, directory, owner, << >>, sudo), w)
    /\ UNCHANGED <<roleVars, lfs, registered>>

\* One call of remove_file by a role, with its outcome.
RemoveFile(file_path, sudo) ==
    /\ \E fail \in 0..remove_file(World(fs, lfs, 0), file_path, sudo).n :
        \E w \in {remove_file(World(fs, lfs, fail), file_path, sudo)} :
           /\ fs' = w.fs
           /\ context' = w.ctx
           /\ res' = Result("remove_file", Args(None, file_path, None, << >>, sudo), w)
    /\ UNCHANGED <<roleVars, lfs, registered>>

\* One call of put_file by a role with a local file, with its outcome.
PutFile(from_file, to_file, sudo) ==
    /\ lfs[from_file] # NoFile
    /\ \E fail \in 0..put_file(World(fs, lfs, 0), from_file, to_file, sudo).n :
        \E w \in {put_file(World(fs, lfs, fail), from_file, to_file, sudo)} :
           /\ fs' = w.fs
           /\ context' = w.ctx
           /\ res' = Result("put_file", Args(from_file, to_file, None, << >>, sudo), w)
    /\ UNCHANGED <<roleVars, lfs, registered>>

\* ------------------------------------------------------- role life cycle
\* Role.provision_role, lines 109-110: construct the role and call its
\* provision(), which runs (and may nest further calls) until it returns or
\* raises.
provision_role_call_schedules_first(role) ==
    /\ Running /\ Room(1)
    /\ stack' = Append(stack, Frame("provision", "provision_role", Role(nextId, role)))
    /\ nextId' = nextId + 1
    /\ cleanup' = schedule_cleanup(cleanup, Role(nextId, role))
    /\ scheduled' = scheduled \cup {Role(nextId, role)}
    /\ ev' = Event("provision_role_call", Role(nextId, role), cleanup)
    /\ UNCHANGED <<raising, provisioned, cleaned, convVars>>

provision_role_call(role) ==
    /\ Running /\ Room(1)
    /\ stack' = Append(stack, Frame("provision", "provision_role", Role(nextId, role)))
    /\ nextId' = nextId + 1
    /\ ev' = Event("provision_role_call", Role(nextId, role), cleanup)
    /\ UNCHANGED <<cleanup, raising, provisioned, scheduled, cleaned, convVars>>

\* Role.provision_role, line 111: provision() returned, schedule_cleanup()
\* is called on the same instance and provision_role returns.
provision_role_return ==
    /\ Running /\ Top.kind = "provision" /\ Top.via = "provision_role"
    /\ provisioned' = provisioned \cup {Top.inst.id}
    /\ cleanup' = schedule_cleanup(cleanup, Top.inst)
    /\ scheduled' = scheduled \cup {Top.inst}
    /\ stack' = SubSeq(stack, 1, Len(stack) - 1)
    /\ ev' = Event("provision_role", Top.inst, cleanup)
    /\ UNCHANGED <<raising, nextId, cleaned, convVars>>

\* Role.using and UsingRole.__enter__, lines 393 and 26-27: construct the
\* role and call its provision().
UsingRole_enter_call(role) ==
    /\ Running /\ Room(2)
    /\ stack' = Append(stack, Frame("provision", "using", Role(nextId, role)))
    /\ nextId' = nextId + 1
    /\ ev' = Event("using_enter_call", Role(nextId, role), cleanup)
    /\ UNCHANGED <<cleanup, raising, provisioned, scheduled, cleaned, convVars>>

\* UsingRole.__enter__, line 28: provision() returned, the instance is
\* handed to the body of the with-statement, which starts.
UsingRole_enter_return ==
    /\ Running /\ Top.kind = "provision" /\ Top.via = "using"
    /\ provisioned' = provisioned \cup {Top.inst.id}
    /\ stack' = [stack EXCEPT ![Len(stack)] = Frame("body", "using", Top.inst)]
    /\ ev' = Event("using_enter", Top.inst, cleanup)
    /\ UNCHANGED <<cleanup, raising, nextId, scheduled, cleaned, convVars>>

\* UsingRole.__exit__, lines 31-32, leaving the scope of the instance
\* `yielded`: a new instance of the role is constructed and scheduled.  The
\* method returns None, so an exception of the body goes on propagating.
UsingRole_exit_only_on_success(yielded, op) ==
    /\ nextId' = nextId + 1
    /\ cleanup' = IF raising THEN cleanup
                  ELSE schedule_cleanup(cleanup, Role(nextId, yielded.cls))
    /\ scheduled' = IF raising THEN scheduled
                    ELSE scheduled \cup {Role(nextId, yielded.cls)}
    /\ stack' = SubSeq(stack, 1, Len(stack) - 1)
    /\ ev' = Event(op, yielded, cleanup)
    /\ UNCHANGED <<provisioned, cleaned, convVars>>

UsingRole_exit_schedules_yielded(yielded, op) ==
    /\ nextId' = nextId
    /\ cleanup' = schedule_cleanup(cleanup, yielded)
    /\ scheduled' = scheduled \cup {yielded}
    /\ stack' = SubSeq(stack, 1, Len(stack) - 1)
    /\ ev' = Event(op, yielded, cleanup)
    /\ UNCHANGED <<provisioned, cleaned, convVars>>

UsingRole_exit(yielded, op) ==
    /\ nextId' = nextId + 1
    /\ cleanup' = schedule_cleanup(cleanup, Role(nextId, yielded.cls))
    /\ scheduled' = scheduled \cup {Role(nextId, yielded.cls)}
    /\ stack' = SubSeq(stack, 1, Len(stack) - 1)
    /\ ev' = Event(op, yielded, cleanup)
    /\ UNCHANGED <<provisioned, cleaned, convVars>>

\* The body of a with-statement ends normally.
using_body_end ==
    /\ Running /\ Top.kind = "body"
    /\ UsingRole_exit(Top.inst, "using_exit")
    /\ UNCHANGED raising

\* A provision() method calls schedule_cleanup() on itself (docstring of
\* schedule_cleanup, line 87), or a with-body on the instance it was handed.
direct_schedule_cleanup ==
    /\ Running
    /\ cleanup' = schedule_cleanup(cleanup, Top.inst)
    /\ scheduled' = scheduled \cup {Top.inst}
    /\ ev' = Event("schedule_cleanup", Top.inst, cleanup)
    /\ UNCHANGED <<stack, raising, nextId, provisioned, cleaned, convVars>>

\* An exception leaves the innermost frame.  Out of provision() called at
\* line 110 it leaves provision_role before line 111; out of provision()
\* called at line 27 it leaves __enter__, and the with-statement runs neither
\* its body nor __exit__; out of a with-body it runs __exit__ and goes on.
leave_frame_schedules ==
    IF Top.kind = "body"
    THEN UsingRole_exit(Top.inst, "using_exit_exc")
    ELSE /\ stack' = SubSeq(stack, 1, Len(stack) - 1)
         /\ ev' = Event(IF Top.via = "using" THEN "using_enter_exc"
                        ELSE "provision_role_exc", Top.inst, cleanup)
         /\ cleanup' = schedule_cleanup(cleanup, Top.inst)
         /\ scheduled' = scheduled \cup {Top.inst}
         /\ UNCHANGED <<nextId, provisioned, cleaned, convVars>>

leave_frame ==
    IF Top.kind = "body"
    THEN UsingRole_exit(Top.inst, "using_exit_exc")
    ELSE /\ stack' = SubSeq(stack, 1, Len(stack) - 1)
         /\ ev' = Event(IF Top.via = "using" THEN "using_enter_exc"
                        ELSE "provision_role_exc", Top.inst, cleanup)
         /\ UNCHANGED <<cleanup, nextId, provisioned, scheduled, cleaned, convVars>>

\* The code of the innermost frame raises and does not catch it.
raise_in_frame ==
    /\ Running /\ Len(stack) > 1
    /\ raising' = TRUE
    /\ leave_frame

\* The frame the exception has reached does not catch it either.
propagate ==
    /\ raising /\ Len(stack) > 1
    /\ leave_frame
    /\ UNCHANGED raising

\* The frame the exception has reached catches it (try/except of a role).
catch ==
    /\ raising
    /\ raising' = FALSE
    /\ ev' = Event("catch", Top.inst, cleanup)
    /\ UNCHANGED <<cleanup, stack, nextId, provisioned, scheduled, cleaned, convVars>>

NoResult == [op |-> "none", args |-> Args(None, NoPath, None, << >>, FALSE),
             pre |-> << >>, log |-> << >>, failed |-> 0, ret |-> None,
             rep |-> NoCall]

\* The role life cycle runs with the convergence state at rest.
ConvIdle ==
    /\ context = StartContext
    /\ fs = << >>
    /\ lfs = << >>
    /\ res = NoResult
    /\ registered = {}

RolesIdle ==
    /\ cleanup = << >>
    /\ stack = << Frame("provision", "driver", Role(1, "UserRole")) >>
    /\ raising = FALSE
    /\ nextId = 2
    /\ provisioned = {}
    /\ scheduled = {}
    /\ cleaned = {}
    /\ ev = Event("init", NoInst, << >>)

NextRoles ==
    \/ \E role \in Classes : provision_role_call(role)
    \/ provision_role_return
    \/ \E role \in Classes : UsingRole_enter_call(role)
    \/ UsingRole_enter_return
    \/ using_body_end
    \/ direct_schedule_cleanup
    \/ raise_in_frame
    \/ propagate
    \/ catch

InitRoles == RolesStart /\ ConvIdle

SpecRoles == InitRoles /\ [][NextRoles]_vars

\* ------------------------------------------------- file push on one host
\* The destination is absent or a regular file of the session user or root;
\* no temporary file exists yet.
InitFile ==
    /\ RolesIdle
    /\ context = StartContext
    /\ \E node \in {NoNode} \cup {FileNode(c, "root") : c \in Contents \cup {Empty}} :
          fs = [path \in FilePaths |-> IF path = TO_FILE THEN node ELSE NoNode]
    /\ lfs = [path \in LocalPaths |-> NoFile]
    /\ res = NoResult
    /\ registered = {}

NextFile ==
    \E from_file \in Templates, owner \in {None, "deploy"}, options \in Options,
       sudo \in BOOLEAN :
        UpdateFile(from_file, TO_FILE, owner, options, sudo)

SpecFile == InitFile /\ [][NextFile]_vars

\* --------------------------------------------------- symlinks on one host
\* The source and the other path are absent, regular files or directories;
\* the destination is absent, a regular file, or a link to one of them.
InitLink ==
    /\ RolesIdle
    /\ context = StartContext
    /\ \E src, other \in {NoNode, FileNode(Text("web"), "root"), DirNode} :
       \E dst \in {NoNode, FileNode(Text("api"), "root"),
                   LinkNode(FROM_FILE), LinkNode(OTHER_FILE)} :
          fs = [path \in {FROM_FILE, OTHER_FILE, LINK} |->
                   IF path = FROM_FILE THEN src
                   ELSE IF path = OTHER_FILE THEN other ELSE dst]
    /\ lfs = [path \in LocalPaths |-> NoFile]
    /\ res = NoResult
    /\ registered = {}

NextLink ==
    \E from_file \in {FROM_FILE, OTHER_FILE}, sudo \in BOOLEAN :
        RemoteSymlink(from_file, LINK, sudo)

SpecLink == InitLink /\ [][NextLink]_vars

\* ------------------------------------------ all the operations on one host
\* The hosts a run starts on: a fresh one (only the source of the link is
\* there), a configured one (everything as the role leaves it), and one that
\* drifted (another content, a file where the directory goes, a link to
\* another file).
Host(file, dir, link) ==
    [path \in FilePaths \cup {FROM_FILE, OTHER_FILE, LINK, DIR} |->
        IF path = TO_FILE THEN file
        ELSE IF path = DIR THEN dir
        ELSE IF path = LINK THEN link
        ELSE IF path \in {FROM_FILE, OTHER_FILE} THEN FileNode(Text("web"), "root")
        ELSE NoNode]

Hosts ==
    { Host(NoNode, NoNode, NoNode),
      Host(FileNode(Text("api"), "deploy"), DirNode, LinkNode(FROM_FILE)),
      Host(FileNode(Text("web"), "root"), FileNode(Empty, "root"), LinkNode(OTHER_FILE)) }

InitHost ==
    /\ RolesIdle
    /\ context = StartContext
    /\ fs \in Hosts
    /\ lfs = [path \in LocalPaths \cup {LOCAL_FILE} |->
                 IF path = LOCAL_FILE THEN Text("web") ELSE NoFile]
    /\ res = NoResult
    /\ registered = {}

\* The role of a run sets up the context (loaders, its own cleanup) and then
\* converges one resource, calling one operation again and again.
SettingUp == res.op \in {"none", "register_template_loader"}

Converging(op) == SettingUp \/ res.op = op

NextHost ==
    \/ /\ Converging("update_file")
       /\ \E from_file \in Templates, sudo \in BOOLEAN :
              UpdateFile(from_file, TO_FILE, "deploy", [name |-> "api"], sudo)
    \/ /\ Converging("put_file")
       /\ \E sudo \in BOOLEAN : PutFile(LOCAL_FILE, TO_FILE, sudo)
    \/ /\ Converging("remove_file")
       /\ \E sudo \in BOOLEAN : RemoveFile(TO_FILE, sudo)
    \/ /\ Converging("ensure_dir")
       /\ \E owner \in {None, "deploy"}, sudo \in BOOLEAN : EnsureDir(DIR, owner, sudo)
    \/ /\ Converging("remote_symlink")
       /\ \E sudo \in BOOLEAN : RemoteSymlink(FROM_FILE, LINK, sudo)
    \/ /\ SettingUp
       /\ \E package_name \in {"my.app", "not.importable"} :
              RegisterTemplateLoader(package_name)
    \/ /\ SettingUp
       /\ direct_schedule_cleanup

SpecHost == InitHost /\ [][NextHost]_vars

\* ------------------------------------------- template loaders of one run
InitLoader == RolesIdle /\ ConvIdle

NextLoader == \E package_name \in Packages : RegisterTemplateLoader(package_name)

SpecLoader == InitLoader /\ [][NextLoader]_vars

\* ------------------------------------------------- claims: role life cycle
ScheduledOfClass(c) == {x \in scheduled : x.cls = c}

\* C1: context['cleanup'] never holds two entries of the same runtime class,
\* and a class on N >= 1 instances of which schedule_cleanup was called has
\* exactly one entry.
C1_OneEntryPerClass ==
    \A c \in Classes :
        /\ CountClass(cleanup, c) <= 1
        /\ ScheduledOfClass(c) # {} => CountClass(cleanup, c) = 1

\* C1 witness: two distinct instances of one class were scheduled and the
\* registry holds one entry of that class.
C1_Witness ==
    \E c \in Classes :
        /\ Cardinality(ScheduledOfClass(c)) >= 2
        /\ CountClass(cleanup, c) = 1

\* C5: when a using(R) scope has been left, by the end of its body or by an
\* exception of its body, schedule_cleanup was called for class R and the
\* registry holds exactly one entry of class R; cleanup() was not called;
\* the instance of every running body was provisioned before the body began.
C5_ScopeExitSchedules ==
    /\ ev.op \in {"using_exit", "using_exit_exc"} =>
          /\ ScheduledOfClass(ev.inst.cls) # {}
          /\ CountClass(cleanup, ev.inst.cls) = 1
          /\ ev.inst.id \in provisioned
    /\ \A k \in 1..Len(stack) :
          stack[k].kind = "body" => stack[k].inst.id \in provisioned
    /\ cleaned = {}

\* C5 witness: a scope was left by an exception of its body.
C5_Witness ==
    /\ ev.op = "using_exit_exc"
    /\ raising
    /\ CountClass(cleanup, ev.inst.cls) = 1

\* C6: provision_role(R) constructs a new instance and runs its provision()
\* with nothing scheduled by the call itself; when provision() has returned
\* the same instance is scheduled, the registry holds exactly one entry of
\* class R, and cleanup() was not called.
C6_ProvisionThenSchedule ==
    /\ ev.op = "provision_role_call" =>
          /\ ev.inst.id = nextId - 1
          /\ Top = Frame("provision", "provision_role", ev.inst)
          /\ ev.inst.id \notin provisioned
          /\ ev.inst \notin scheduled
          /\ cleanup = ev.before
    /\ ev.op = "provision_role" =>
          /\ ev.inst.id \in provisioned
          /\ ev.inst \in scheduled
          /\ CountClass(cleanup, ev.inst.cls) = 1
          /\ cleanup \in {ev.before, Append(ev.before, ev.inst)}
    /\ cleaned = {}

\* C6 witness: provision_role returned and its instance is the new entry.
C6_Witness ==
    /\ ev.op = "provision_role"
    /\ Len(ev.before) >= 1
    /\ cleanup = Append(ev.before, ev.inst)

\* C14: every step of a run leaves context['cleanup'] as it was or with one
\* more entry at its end, and calls cleanup() on no instance.
C14_AppendOnly ==
    [][ /\ \/ cleanup' = cleanup
           \/ /\ Len(cleanup') = Len(cleanup) + 1
              /\ SubSeq(cleanup', 1, Len(cleanup)) = cleanup
        /\ cleaned' = cleaned
      ]_vars

\* C14 witness: a call for a class that has its entry left a registry of two
\* entries as it was.
C14_Witness ==
    /\ Len(cleanup) >= 2
    /\ ev.op \in {"provision_role", "using_exit", "schedule_cleanup"}
    /\ cleanup = ev.before
    /\ cleanup[1].cls = ev.inst.cls

ClassesOf(cl) == {cl[k].cls : k \in 1..Len(cl)}

\* The entry of class c.
Entry(cl, c) == cl[CHOOSE k \in 1..Len(cl) : cl[k].cls = c]

\* C15: the classes with an entry in context['cleanup'] are the classes of
\* the instances schedule_cleanup was called on, one entry each; the entry
\* of a class is the first instance of the class that was scheduled and
\* stays when later instances of the class are scheduled; a class and its
\* subclass have an entry each.
C15_FirstWins ==
    [][ /\ ClassesOf(cleanup') = {x.cls : x \in scheduled'}
        /\ \A c \in Classes : CountClass(cleanup', c) <= 1
        /\ \A c \in ClassesOf(cleanup) : Entry(cleanup', c) = Entry(cleanup, c)
        /\ \A x \in scheduled' \ scheduled :
              ScheduledOfClass(x.cls) = {} => Entry(cleanup', x.cls) = x
      ]_vars

\* C15 witness: a class and its subclass have an entry each, and the entry
\* of the class is not the instance constructed first: a later one was
\* scheduled before it.
C15_Witness ==
    /\ {"UserRole", "SubUserRole"} \subseteq ClassesOf(cleanup)
    /\ \E x \in ScheduledOfClass("UserRole") : x.id < Entry(cleanup, "UserRole").id

\* C16: the step that leaves a using(R) scope calls schedule_cleanup on an
\* instance of R constructed by that step, not on the instance that was
\* provisioned and handed to the body; an entry the step appends is that new
\* instance, whose provision() was never called.
C16_FreshInstanceAtExit ==
    [][ ev'.op \in {"using_exit", "using_exit_exc"} =>
          /\ Top = Frame("body", "using", ev'.inst)
          /\ ev'.inst.id \in provisioned
          /\ nextId' = nextId + 1
          /\ Role(nextId, ev'.inst.cls) # ev'.inst
          /\ Role(nextId, ev'.inst.cls) \notin scheduled
          /\ scheduled' = scheduled \cup {Role(nextId, ev'.inst.cls)}
          /\ nextId \notin provisioned'
          /\ cleanup' \in {cleanup, Append(cleanup, Role(nextId, ev'.inst.cls))}
      ]_vars

\* C16 witness: a scope was left and the new entry of the registry is the
\* instance constructed at the exit, which was not provisioned, while the
\* instance of the body was.
C16_Witness ==
    /\ ev.op = "using_exit"
    /\ cleanup = Append(ev.before, Role(nextId - 1, ev.inst.cls))
    /\ ev.inst.id \in provisioned
    /\ (nextId - 1) \notin provisioned
    /\ ev.inst \notin scheduled

\* C19: the step in which an exception leaves the provision() that
\* provision_role(R) or the entry of using(R) called goes on raising in the
\* caller, calls schedule_cleanup on nothing and leaves the registry as it
\* was; no body of that scope starts and no instance is constructed for its
\* exit.
C19_FailedDelegation ==
    [][ ev'.op \in {"provision_role_exc", "using_enter_exc"} =>
          /\ Top.kind = "provision" /\ Top.inst = ev'.inst
          /\ Top.via = (IF ev'.op = "using_enter_exc" THEN "using" ELSE "provision_role")
          /\ raising'
          /\ cleanup' = cleanup
          /\ scheduled' = scheduled
          /\ nextId' = nextId
          /\ stack' = SubSeq(stack, 1, Len(stack) - 1)
          /\ ev'.inst.id \notin provisioned'
          /\ \A k \in 1..Len(stack') : stack'[k].inst # ev'.inst
      ]_vars

\* C19 witness: the provision() called on entry of a using scope raised, with
\* something in the registry and nothing of the role's class scheduled.
C19_Witness ==
    /\ ev.op = "using_enter_exc"
    /\ raising
    /\ Len(cleanup) >= 1 /\ cleanup = ev.before
    /\ ScheduledOfClass(ev.inst.cls) = {}

\* The entry of class s comes before the entry of class r.
Precedes(cl, s, r) ==
    \E i, j \in 1..Len(cl) : i < j /\ cl[i].cls = s /\ cl[j].cls = r

\* No entry of the classes was in the registry when the instance was
\* constructed: every entry of theirs is an instance constructed after it.
NoEntryBefore(cl, inst, classes) ==
    \A k \in 1..Len(cl) : cl[k].cls \in classes => cl[k].id > inst.id

\* C18 as claimed: provision_role(R) returns and schedules R; the first thing
\* R's provision did was to delegate to a role of class S # R, which was
\* provisioned and scheduled; no entry of class R or S was in the registry
\* before and R's provision did not call schedule_cleanup on itself; then
\* the entry of class S precedes the entry of class R.
C18_InnermostFirst ==
    [][ ev'.op = "provision_role" =>
          \A S \in Classes \ {ev'.inst.cls} :
             ( /\ Role(ev'.inst.id + 1, S) \in scheduled
               /\ (ev'.inst.id + 1) \in provisioned
               /\ NoEntryBefore(cleanup, ev'.inst, {S, ev'.inst.cls})
               /\ ev'.inst \notin scheduled )
             => Precedes(cleanup', S, ev'.inst.cls)
      ]_vars

\* C18 amended: R's delegation protocol (the return of provision_role(R), the
\* exit of using(R)) schedules R; an instance of class S # R constructed
\* after R's instance was scheduled; no entry of class R or S was in the
\* registry before, and no instance of class R was scheduled since R's
\* instance was constructed, neither R's own nor one of a nested delegation;
\* then the entry of class S precedes the entry of class R.
C18_InnermostFirstUnlessNested ==
    [][ ev'.op \in {"provision_role", "using_exit", "using_exit_exc"} =>
          \A S \in Classes \ {ev'.inst.cls} :
             ( /\ \E x \in ScheduledOfClass(S) : x.id > ev'.inst.id
               /\ NoEntryBefore(cleanup, ev'.inst, {S, ev'.inst.cls})
               /\ \A x \in ScheduledOfClass(ev'.inst.cls) : x.id < ev'.inst.id )
             => Precedes(cleanup', S, ev'.inst.cls)
      ]_vars

\* C18 witness: provision_role(R) returned and appended R's instance right
\* after the entry of a class whose instance was constructed during R's
\* provision.
C18_Witness ==
    /\ ev.op = "provision_role"
    /\ Len(cleanup) >= 2
    /\ cleanup = Append(ev.before, ev.inst)
    /\ cleanup[Len(cleanup) - 1].id > ev.inst.id
    /\ cleanup[Len(cleanup) - 1].cls # ev.inst.cls

\* ------------------------------------------------------ claims: file push
IsUpdate == res.op = "update_file"

\* The destination as the call found it and as it left it.
PreNode == At(res.pre, Resolve(res.pre, res.args.to))
PostNode == At(fs, Resolve(fs, res.args.to))

\* The content the call's template renders to on the local side.
Rendered == Text(extend_context(context, res.args.options)["name"])

Issued(names) == {k \in 1..Len(res.log) : res.log[k].c \in names}

NoLocalTemp == \A path \in LocalPaths : lfs[path] = NoFile

\* C2: a call that does not fail and finds the destination absent or with
\* other content returns True and leaves the destination with the hash of
\* the rendered content; the same call made again right after a True returns
\* False (with sudo and without).
C2_PushIdempotent ==
    (IsUpdate /\ res.ret # "raised") =>
        /\ (PreNode.kind = Absent \/ PreNode.content # Rendered) =>
              /\ res.ret = "True"
              /\ PostNode.kind = "file"
              /\ Md5(PostNode.content, FALSE) = Md5(Rendered, FALSE)
        /\ res.rep = "True" => res.ret = "False"

\* C2 witness: with sudo, the repeated call returned False after a True.
C2_Witness ==
    /\ IsUpdate /\ res.args.sudo
    /\ res.rep = "True" /\ res.ret = "False"

\* C3: when update_file has returned or raised, no local temporary file
\* exists.
C3_TempFileRemoved == IsUpdate => NoLocalTemp

\* C7: when the template cannot be rendered, update_file raises, has issued
\* no remote action at all, leaves the host as it was and no local
\* temporary file.
C7_RenderFailure ==
    (IsUpdate /\ res.args.from \notin Found) =>
        /\ res.ret = "raised"
        /\ res.log = << >>
        /\ fs = res.pre
        /\ NoLocalTemp

\* C7 witness: rendering failed on a host whose destination exists.
C7_Witness ==
    /\ IsUpdate /\ res.args.from \notin Found
    /\ res.ret = "raised"
    /\ PreNode.kind = "file"

\* The remote actions of a completed transfer to the destination.
Transferred ==
    IF res.args.sudo
    THEN \E i, j \in 1..Len(res.log) :
            /\ i < j
            /\ res.log[i].c = "put" /\ res.log[i].b = join(REMOTE_TMP, basename(res.log[i].a))
            /\ res.log[j].c = "cp" /\ res.log[j].a = res.log[i].b
            /\ res.log[j].b = res.args.to /\ res.log[j].sudo
    ELSE \E i \in 1..Len(res.log) :
            res.log[i].c = "put" /\ res.log[i].b = res.args.to

OwnerChanged ==
    \E i \in 1..Len(res.log) :
        /\ res.log[i].c = "chown" /\ res.log[i].a = res.args.to
        /\ res.log[i].owner = res.args.owner

\* C9: update_file returns True only after a transfer to the destination
\* (and the owner change, when an owner was given) completed; it returns
\* False exactly when the destination existed with the hash of the rendered
\* content, and then it issued no upload, copy or owner change.
C9_ChangedOnlyAfterTransfer ==
    IsUpdate =>
        /\ res.ret = "True" =>
              /\ Transferred
              /\ PostNode.kind = "file" /\ PostNode.content = Rendered
              /\ res.args.owner # None =>
                    (OwnerChanged /\ PostNode.owner = res.args.owner)
        /\ res.ret = "False" <=>
              /\ res.ret # "raised"
              /\ PreNode.kind = "file"
              /\ Md5(PreNode.content, FALSE) = Md5(Rendered, FALSE)
        /\ res.ret = "False" => (Issued({"put", "cp", "chown"}) = {} /\ fs = res.pre)
        /\ res.ret \in {"True", "False", "raised"}

\* C9 witness: the hashes differed on an existing destination, and the call
\* transferred with sudo and changed the owner.
C9_Witness ==
    /\ IsUpdate /\ res.ret = "True"
    /\ PreNode.kind = "file"
    /\ res.args.sudo /\ res.args.owner # None

\* -------------------------------------------------------- claims: symlink
IsSymlink == res.op = "remote_symlink"

\* The path is a symbolic link that resolves to the target.
LinksTo(f, path, target) ==
    At(f, path).kind = "link" /\ Resolve(f, path) = target

SourceBefore == At(res.pre, Resolve(res.pre, res.args.from))

\* C4: whenever remote_symlink returns, the destination is a symbolic link
\* that resolves to the source.
C4_SymlinkEnsured ==
    (IsSymlink /\ res.ret \in {"True", "False"}) =>
        LinksTo(fs, res.args.to, res.args.from)

\* C8: with the source present and the destination absent or a link to
\* another target, a call that does not fail returns True and leaves the
\* destination resolving to the source; the same call made again right
\* after a True returns False and issues no ln.
C8_SymlinkIdempotent ==
    (IsSymlink /\ res.ret # "raised") =>
        /\ ( /\ SourceBefore.kind = "file"
             /\ \/ At(res.pre, res.args.to).kind = Absent
                \/ /\ At(res.pre, res.args.to).kind = "link"
                   /\ At(res.pre, res.args.to).target # res.args.from ) =>
              /\ res.ret = "True"
              /\ LinksTo(fs, res.args.to, res.args.from)
        /\ res.rep = "True" =>
              (res.ret = "False" /\ Issued({"ln -sf"}) = {})

\* C10: with the source absent, remote_symlink raises after the one test of
\* the source: it has issued no ln and no command on the destination, and
\* the host is as it was.
C10_MissingSource ==
    (IsSymlink /\ SourceBefore.kind = Absent) =>
        /\ res.ret = "raised"
        /\ Len(res.log) = 1
        /\ res.log[1].c = "test -f" /\ res.log[1].a = res.args.from
        /\ fs = res.pre

\* C10 witness: the source was absent and the destination a link to
\* another, existing file.
C10_Witness ==
    /\ IsSymlink /\ SourceBefore.kind = Absent
    /\ res.ret = "raised"
    /\ LinksTo(res.pre, res.args.to, OTHER_FILE)
    /\ res.args.from = FROM_FILE
    /\ At(res.pre, OTHER_FILE).kind = "file"

\* ----------------------------------------------- claims: template loaders
IsRegister == res.op = "register_template_loader"

\* The loaders appended to context['loader'] since the run began.
AppendedLoaders(ctx) ==
    SubSeq(ctx.loader, Len(StartContext.loader) + 1, Len(ctx.loader))

Occurrences(seq, x) == Cardinality({k \in 1..Len(seq) : seq[k] = x})

\* C11: after every call of register_template_loader, the loaders appended
\* to context['loader'] are as many as the distinct identifiers registered,
\* one PackageLoader for each, registered_loaders holds each of them exactly
\* once and nothing else, and a call with an identifier already registered
\* changes neither collection.
C11_RegisterOnce ==
    [][ /\ Len(AppendedLoaders(context')) = Cardinality(registered')
        /\ Len(context'.registered_loaders) = Cardinality(registered')
        /\ \A id \in registered' :
              /\ Occurrences(context'.registered_loaders, id) = 1
              /\ Occurrences(AppendedLoaders(context'), PackageLoader(id)) = 1
        /\ (res'.op = "register_template_loader" /\ res'.args.from \in registered) =>
              /\ context'.loader = context.loader
              /\ context'.registered_loaders = context.registered_loaders
      ]_vars

\* C11 witness: an identifier was registered again right after it had been
\* registered, with another one registered before.
C11_Witness ==
    /\ IsRegister /\ res.rep = None /\ res.ret = None
    /\ Cardinality(registered) = 2
    /\ res.args.from \in registered

\* ------------------------------------------------------- claims: transfer
IsPut == res.op = "put_file"

ConvergenceOps == {"update_file", "put_file", "remote_symlink", "ensure_dir",
                   "remove_file"}

\* C13: when a remote command or an upload of update_file, put_file,
\* remote_symlink, ensure_dir or remove_file fails, the call raises and the
\* failing action is the last one it issued; no call issues the same remote
\* action twice.
C13_NoRetryNoSuppression ==
    res.op \in ConvergenceOps =>
        /\ res.failed # 0 =>
              /\ res.ret = "raised"
              /\ res.failed = Len(res.log)
        /\ \A i, j \in 1..Len(res.log) : i # j => res.log[i] # res.log[j]

\* C13 witness: the upload of update_file failed after the existence test
\* and the comparison of the hashes.
C13_Witness ==
    /\ IsUpdate /\ res.ret = "raised"
    /\ res.failed = 3 /\ Len(res.log) = 3
    /\ res.log[2].c = "md5" /\ res.log[3].c = "put"

\* ---------------------------------------------------- claims: directories
IsEnsureDir == res.op = "ensure_dir"

\* C17: ensure_dir tests the directory first; it issues mkdir exactly when
\* the test found no directory, and, unless an action before it failed, the
\* owner change exactly when an owner was given, whether or not it issued
\* mkdir; right after an ensure_dir that returned, the same call issues no
\* mkdir.
C17_EnsureDir ==
    IsEnsureDir =>
        /\ Len(res.log) >= 1
        /\ res.log[1] = Cmd("test -d", res.args.to, NoPath, None, FALSE)
        /\ Issued({"mkdir -p"}) # {} <=> (res.failed # 1 /\ PreNode.kind # "dir")
        /\ Issued({"mkdir -p"}) \subseteq {2}
        /\ Issued({"chown -R"}) # {} =>
              /\ res.args.owner # None
              /\ res.log[Len(res.log)] = Cmd("chown -R", res.args.to, NoPath,
                                             res.args.owner, TRUE)
              /\ Cardinality(Issued({"chown -R"})) = 1
        /\ (res.args.owner # None /\ res.failed \notin {1, 2}) =>
              Issued({"chown -R"}) # {}
        /\ res.rep = None => Issued({"mkdir -p"}) = {}
        /\ res.ret = None => (PostNode.kind = "dir" /\
                              (res.args.owner # None => PostNode.owner = res.args.owner))

\* C17 witness: the directory was there, nothing was created and the owner
\* was changed.
C17_Witness ==
    /\ IsEnsureDir /\ res.ret = None
    /\ PreNode.kind = "dir" /\ PreNode.owner # res.args.owner
    /\ Issued({"mkdir -p"}) = {}
    /\ Issued({"chown -R"}) = {2}
    /\ PostNode.owner = res.args.owner

\* -------------------------------------------------------- claims: context
\* C20: a call of update_file (with render and extend_context), put_file,
\* remote_symlink, ensure_dir or remove_file leaves every key of the context
\* and the registry as they were, and a file update_file pushed holds the
\* value of the options, not the context's; register_template_loader changes
\* only 'loader' and 'registered_loaders', schedule_cleanup only the
\* registry; context['host'] never changes.
C20_ContextFrame ==
    [][ /\ context'.host = context.host
        /\ DOMAIN context' = DOMAIN context
        /\ IF ev' # ev
           THEN context' = context
           ELSE IF res'.op \in ConvergenceOps
           THEN /\ context' = context
                /\ cleanup' = cleanup
                /\ (res'.op = "update_file" /\ res'.ret = "True") =>
                       /\ At(fs', res'.args.to).content = Text(res'.args.options["name"])
                       /\ context'["name"] # res'.args.options["name"]
           ELSE /\ cleanup' = cleanup
                /\ \A key \in DOMAIN context \ {"loader", "registered_loaders"} :
                       context'[key] = context[key]
      ]_vars

\* C20 witness: after a loader was registered and a role scheduled,
\* update_file pushed the template of that loader with the value of the
\* options, and the context still holds its own value.
C20_Witness ==
    /\ IsUpdate /\ res.ret = "True"
    /\ res.args.from = "missing.tpl"
    /\ At(fs, res.args.to).content = Text("api")
    /\ context = [StartContext EXCEPT
                      !.loader = Append(@, PackageLoader("my.app")),
                      !.registered_loaders = << "my.app" >>]
    /\ Len(cleanup) = 1

====
